---- MODULE Spec2Model ----
(***************************************************************************)
(* Model of src/api/blik.py: the credential manager (api_tokens table,     *)
(* get_valid_jwt and its helpers) and the four batched ingestion stages    *)
(* run in sequence by the __main__ block.  The program is single-threaded  *)
(* and blocking, so every step below is one uninterrupted piece of the     *)
(* code; the remote API, the authorization endpoint and the store answer   *)
(* nondeterministically.                                                   *)
(***************************************************************************)
EXTENDS Integers, Sequences, FiniteSets, TLC

\* ------------------------------------------------------------------ bounds
\* Largest number of locations the listing returns.
MaxLocs == 2
\* Largest batch_size the stages are run with (the code's default is 50).
MaxBatch == 2
\* Last instant of the clock (seconds); a run starts at instant 0.
MaxTime == 0
\* The expires_in (seconds) the authorization endpoint declares, when it
\* declares one.
Lifetime == 1
\* Largest number of per-item requests of one run that the remote API answers
\* with anything but a good document.
MaxFaults == 1
\* Largest number of deployments of a location, of corrections and of
\* sensors of a deployment in the remote API's detail document.
MaxDeps == 2
MaxCorr == 2
MaxSens == 1

\* Longest list and largest batch_size the v2 stage is run with on its own.
MaxItems == 6
MaxSize == 3
\* Longest series of a reference-measurements document.
MaxSamples == 3
\* Largest number of times __main__ is run against the same store.
MaxRuns == 2

\* --------------------------------------------------------------- constants
\* request_new_jwt: resp.json().get("expires_in", 3600)
DefaultExpiresIn == 3600
\* Python's None where a token is expected (no token bound yet).
NoToken == 0
\* The jwt of the row a previous run may have left in api_tokens.
CachedJwt == 1

NoError == "none"

Range(s) == {s[i] : i \in 1..Len(s)}

\* The concatenation of a sequence of lists.
RECURSIVE Concat(_)
Concat(ss) == IF ss = <<>> THEN <<>> ELSE Head(ss) \o Concat(Tail(ss))

\* ------------------------------------------------------------ batch helper
\* def batch_list(lst, batch_size): for i in range(0, len(lst), batch_size):
\*     yield lst[i:i + batch_size]
\* Slice(lst, i, j) is Python's lst[i:j] for 0 <= i <= j (0-based, j clipped).
Slice(lst, i, j) ==
    LET hi == IF j > Len(lst) THEN Len(lst) ELSE j
    IN  [k \in 1..(IF hi > i THEN hi - i ELSE 0) |-> lst[i + k]]

\* range(0, n, step): the starts 0, step, 2*step, ... below n, in order.
RECURSIVE RangeFrom(_, _, _)
RangeFrom(i, n, step) ==
    IF i >= n THEN <<>> ELSE <<i>> \o RangeFrom(i + step, n, step)

\* Mutant: the slice is one item short (lst[i:i + batch_size - 1]).
batch_list_short(lst, batch_size) ==
    LET starts == RangeFrom(0, Len(lst), batch_size)
    IN  [c \in 1..Len(starts) |-> Slice(lst, starts[c], starts[c] + batch_size - 1)]

batch_list(lst, batch_size) ==
    LET starts == RangeFrom(0, Len(lst), batch_size)
    IN  [c \in 1..Len(starts) |-> Slice(lst, starts[c], starts[c] + batch_size)]

\* ------------------------------------------------------ credential manager
\* A row of TOKEN_TABLE as save_token writes it.  id is derived from the
\* clock second; created_at is a microsecond timestamp, which grows with
\* every insert of the (sequential) program: it is modelled by the ordinal
\* of the insert.
TokenRow(t, jwt, expires_at, ordinal) ==
    [id |-> t, jwt |-> jwt, expires_at |-> expires_at, created_at |-> ordinal]

\* What a call returns: raised = NoError and a value, or the exception that
\* propagates.  tbl is api_tokens after the call, posts the number of POSTs to
\* TOKEN_URL, probes the number of validation GETs the call made.
Outcome(raised, value, tbl, posts, probes) ==
    [raised |-> raised, value |-> value, tbl |-> tbl, posts |-> posts, probes |-> probes]

\* save_token: one insert; the store answers ins \in {"ok", "error"}.
save_token(tbl, jwt, expires_at, t, ins) ==
    IF ins = "ok"
    THEN [raised |-> NoError, tbl |-> Append(tbl, TokenRow(t, jwt, expires_at, Len(tbl) + 1))]
    ELSE [raised |-> "APIError", tbl |-> tbl]

\* Mutant: the rows are ordered by created_at ascending, the oldest is loaded.
load_most_recent_token_oldest(tbl) ==
    IF tbl = <<>> THEN <<>>
    ELSE <<CHOOSE r \in Range(tbl) : \A q \in Range(tbl) : q.created_at >= r.created_at>>

\* load_most_recent_token: order("created_at", desc=True).limit(1); res.data
\* is a list of at most one row, [] standing for the returned None.
load_most_recent_token(tbl) ==
    IF tbl = <<>> THEN <<>>
    ELSE <<CHOOSE r \in Range(tbl) : \A q \in Range(tbl) : q.created_at <= r.created_at>>

\* Mutant: a refresh that returns the token without persisting it.
request_new_jwt_unsaved(tbl, t, auth, ins) ==
    IF auth.status >= 400 THEN Outcome("HTTPError", NoToken, tbl, 1, 0)
    ELSE IF auth.body = <<>> THEN Outcome("JSONDecodeError", NoToken, tbl, 1, 0)
    ELSE Outcome(NoError, auth.body[1].access_token, tbl, 1, 0)

\* request_new_jwt: POST, raise_for_status (raises on 4xx/5xx), read
\* access_token and expires_in (default 3600), save_token, return the token.
\* auth is the endpoint's answer [status, body]; body is <<>> when the answer
\* carries no JSON document (resp.json() then raises).
request_new_jwt(tbl, t, auth, ins) ==
    IF auth.status >= 400 THEN Outcome("HTTPError", NoToken, tbl, 1, 0)
    ELSE IF auth.body = <<>> THEN Outcome("JSONDecodeError", NoToken, tbl, 1, 0)
    ELSE LET token == auth.body[1].access_token
             expires_in == IF auth.body[1].expires_in = <<>> THEN DefaultExpiresIn
                           ELSE auth.body[1].expires_in[1]
             saved == save_token(tbl, token, t + expires_in, t, ins)
         IN  IF saved.raised # NoError
             THEN Outcome(saved.raised, NoToken, saved.tbl, 1, 0)
             ELSE Outcome(NoError, token, saved.tbl, 1, 0)

\* validate_token: GET /api/v3/locations with the token.  probe is the
\* answer: an HTTP status, or "ConnectionError" when requests.get itself
\* raises (the call is not wrapped in try/except).
validate_token(jwt, probe) ==
    IF probe = "ConnectionError" THEN [raised |-> "ConnectionError", value |-> FALSE]
    ELSE [raised |-> NoError, value |-> (probe = "200")]

\* Mutant: the cached token is refreshed even when the probe succeeds.
get_valid_jwt_always_refresh(tbl, t, probe, auth, ins) ==
    LET saved == load_most_recent_token(tbl)
    IN  IF saved = <<>> THEN request_new_jwt(tbl, t, auth, ins)
        ELSE IF saved[1].expires_at < t THEN request_new_jwt(tbl, t, auth, ins)
        ELSE LET v == validate_token(saved[1].jwt, probe)
             IN  IF v.raised # NoError THEN Outcome(v.raised, NoToken, tbl, 0, 1)
                 ELSE [request_new_jwt(tbl, t, auth, ins) EXCEPT !.probes = 1]

\* Mutant: a failed refresh falls back to the cached token.
get_valid_jwt_fallback(tbl, t, probe, auth, ins) ==
    LET saved == load_most_recent_token(tbl)
        r     == request_new_jwt(tbl, t, auth, ins)
    IN  IF saved = <<>> THEN r
        ELSE IF saved[1].expires_at < t
        THEN (IF r.raised # NoError THEN Outcome(NoError, saved[1].jwt, r.tbl, 1, 0) ELSE r)
        ELSE LET v == validate_token(saved[1].jwt, probe)
             IN  IF v.raised # NoError THEN Outcome(v.raised, NoToken, tbl, 0, 1)
                 ELSE IF v.value THEN Outcome(NoError, saved[1].jwt, tbl, 0, 1)
                 ELSE [r EXCEPT !.probes = 1]

\* get_valid_jwt at clock reading t.
get_valid_jwt(tbl, t, probe, auth, ins) ==
    LET saved == load_most_recent_token(tbl)
    IN  IF saved = <<>> THEN request_new_jwt(tbl, t, auth, ins)
        ELSE IF saved[1].expires_at < t THEN request_new_jwt(tbl, t, auth, ins)
        ELSE LET v == validate_token(saved[1].jwt, probe)
             IN  IF v.raised # NoError THEN Outcome(v.raised, NoToken, tbl, 0, 1)
                 ELSE IF v.value THEN Outcome(NoError, saved[1].jwt, tbl, 0, 1)
                 ELSE [request_new_jwt(tbl, t, auth, ins) EXCEPT !.probes = 1]

\* ------------------------------------------------------- record flatteners
\* A field of a reference document: absent, null, a number (items = <<n>>), a
\* string that is no number, or a list of numbers (items).  Numbers are whole,
\* so int(round(float(v))) and float(v) leave them as they are.
FieldValue(kind, items) == [kind |-> kind, items |-> items]

Absent == FieldValue("absent", <<>>)
None == FieldValue("null", <<>>)
Number(n) == FieldValue("num", <<n>>)

\* A JSON value in which flatten_reference looks for the series: an object
\* with the fields timestamps and waterGround_mm and n other keys, null, a
\* list of n elements, or the number n.
Json(type, fields, n) == [type |-> type, fields |-> fields, n |-> n]

NoFields == [timestamps |-> Absent, waterGround_mm |-> Absent]

\* Python's truth value: None, {}, [] and 0 are falsy.
Truthy(v) ==
    CASE v.type = "null" -> FALSE
      [] v.type = "dict" -> \/ v.n > 0
                            \/ v.fields.timestamps.kind # "absent"
                            \/ v.fields.waterGround_mm.kind # "absent"
      [] OTHER -> v.n # 0

\* The response of the reference-measurements endpoint: a JSON value, with
\* the value under its key referenceMeasurements when it is an object that
\* has one (wrapped) and its first element when it is a non-empty list
\* (first); <<>> where there is none.
Response(v, wrapped, first) ==
    [type |-> v.type, fields |-> v.fields, n |-> v.n, wrapped |-> wrapped, first |-> first]

\* val[idx] for a Python list and an index that is in range.
Index(items, idx) == IF idx < 0 THEN items[Len(items) + idx + 1] ELSE items[idx + 1]

\* Mutant: the first sample of a series is taken instead of the one at idx.
safe_get_ref_field_first(ref, key, idx) ==
    IF ~Truthy(ref) THEN [raised |-> FALSE, val |-> None]
    ELSE IF ref.type # "dict" THEN [raised |-> TRUE, val |-> None]
    ELSE LET val == ref.fields[key]
         IN  IF val.kind = "list"
             THEN (IF Len(val.items) = 0 THEN [raised |-> FALSE, val |-> None]
                   ELSE [raised |-> FALSE, val |-> Number(val.items[1])])
             ELSE IF val.kind = "absent" THEN [raised |-> FALSE, val |-> None]
             ELSE [raised |-> FALSE, val |-> val]

\* safe_get_ref_field(ref, key, idx) with as_type left at None, as
\* flatten_reference calls it: None for a falsy ref; ref.get(key), which
\* raises AttributeError when ref is a list or a number; of a list the element
\* at idx, None when the list is empty.
safe_get_ref_field(ref, key, idx) ==
    IF ~Truthy(ref) THEN [raised |-> FALSE, val |-> None]
    ELSE IF ref.type # "dict" THEN [raised |-> TRUE, val |-> None]
    ELSE LET val == ref.fields[key]
         IN  IF val.kind = "list"
             THEN (IF Len(val.items) = 0 THEN [raised |-> FALSE, val |-> None]
                   ELSE [raised |-> FALSE, val |-> Number(Index(val.items, idx))])
             ELSE IF val.kind = "absent" THEN [raised |-> FALSE, val |-> None]
             ELSE [raised |-> FALSE, val |-> val]

\* flatten_reference's safe_int: None for None and for what float() rejects,
\* else int(round(float(val))); <<>> stands for None.
safe_int(val) == IF val.kind = "num" THEN <<val.items[1]>> ELSE <<>>

\* Mutant: an object with neither key is flattened like one with timestamps.
flatten_reference_any_dict(location_id, ref) ==
    IF ~(Truthy(ref) \/ ref.wrapped # <<>>) THEN [raised |-> FALSE, value |-> <<>>]
    ELSE LET normalized ==
                 IF ref.type = "dict" /\ ref.wrapped # <<>>
                    /\ ref.fields.timestamps.kind = "absent" THEN ref.wrapped
                 ELSE IF ref.type = "dict" THEN <<Json(ref.type, ref.fields, ref.n)>>
                 ELSE IF ref.type = "list" /\ ref.n > 0 THEN ref.first
                 ELSE <<>>
         IN  IF normalized = <<>> THEN [raised |-> FALSE, value |-> <<>>]
             ELSE LET ts == safe_get_ref_field(normalized[1], "timestamps", -1)
                      wg == safe_get_ref_field(normalized[1], "waterGround_mm", -1)
                  IN  IF ts.raised \/ wg.raised THEN [raised |-> TRUE, value |-> <<>>]
                      ELSE [raised |-> FALSE,
                            value |-> <<[location_id |-> location_id,
                                         timestamp |-> safe_int(ts.val),
                                         waterground_mm |-> safe_int(wg.val)]>>]

\* flatten_reference(location_id, name, lat, lon, ref): None (<<>>) for a
\* falsy ref and for one of no accepted shape; else the record built from the
\* normalized source with idx = -1.  Of the record the location_id and the
\* fields timestamp and waterground_mm are kept: the other series are read
\* by the same safe_get_ref_field call, name, lat and lon are passed through.
flatten_reference(location_id, ref) ==
    IF ~(Truthy(ref) \/ ref.wrapped # <<>>) THEN [raised |-> FALSE, value |-> <<>>]
    ELSE LET normalized ==
                 IF ref.type = "dict" /\ ref.fields.timestamps.kind # "absent"
                 THEN <<Json(ref.type, ref.fields, ref.n)>>
                 ELSE IF ref.type = "dict" /\ ref.wrapped # <<>> THEN ref.wrapped
                 ELSE IF ref.type = "list" /\ ref.n > 0 THEN ref.first
                 ELSE <<>>
         IN  IF normalized = <<>> THEN [raised |-> FALSE, value |-> <<>>]
             ELSE LET ts == safe_get_ref_field(normalized[1], "timestamps", -1)
                      wg == safe_get_ref_field(normalized[1], "waterGround_mm", -1)
                  IN  IF ts.raised \/ wg.raised THEN [raised |-> TRUE, value |-> <<>>]
                      ELSE [raised |-> FALSE,
                            value |-> <<[location_id |-> location_id,
                                         timestamp |-> safe_int(ts.val),
                                         waterground_mm |-> safe_int(wg.val)]>>]

\* A detail document of /api/v3/locations/{id}: its id and, of the nested
\* sub-objects flatten_v3_to_blik_location walks, whether each is absent
\* ("absent"), null ("null") or an object ("dict"): loc["well"], well["tube"],
\* well["horizontalPosition"] and horizontalPosition["coordinates"].
Document(id, well, tube, horizontalPosition, coordinates) ==
    [id |-> id, well |-> well, tube |-> tube,
     horizontalPosition |-> horizontalPosition, coordinates |-> coordinates]

\* parent.get(key) or {}: the sub-object, or the empty object when the parent
\* is empty or the key is absent or null.
GetOrEmpty(parent, kind) == IF parent = "dict" /\ kind = "dict" THEN "dict" ELSE "empty"

\* parent.get(key, {}): the default replaces an absent key only, a null stays.
GetDefaultEmpty(parent, kind) ==
    IF parent # "dict" \/ kind = "absent" THEN "empty" ELSE kind

\* flatten_v3_to_blik_location(loc).  Of the record the id, well_tube_id and
\* well_horizontalposition_coordinates_x are kept (the tube's id and the x
\* coordinate are the location's id in every document); <<>> stands for None.
\* coordinates.get raises AttributeError when coordinates is null.
flatten_v3_to_blik_location(loc) ==
    LET well        == GetOrEmpty("dict", loc.well)
        tube        == GetOrEmpty(well, loc.tube)
        horizontal  == GetOrEmpty(well, loc.horizontalPosition)
        coordinates == GetDefaultEmpty(horizontal, loc.coordinates)
    IN  IF coordinates = "null" THEN [raised |-> TRUE, value |-> <<>>]
        ELSE [raised |-> FALSE,
              value |-> <<[id |-> loc.id,
                           well_tube_id |-> IF tube = "dict" THEN <<loc.id>> ELSE <<>>,
                           well_horizontalposition_coordinates_x |->
                               IF coordinates = "dict" THEN <<loc.id>> ELSE <<>>]>>]

\* ------------------------------------------------------------------- state
VARIABLES
    pc,           \* position of the __main__ block (which call is running)
    now,          \* the clock, in seconds
    api_tokens,   \* TOKEN_TABLE: the rows inserted so far
    issued,       \* number of tokens the authorization endpoint has issued
    token,        \* __main__'s variable token
    stage_token,  \* the local variable token of the v3 / deployments stage
    jwt_calls,    \* number of get_valid_jwt calls of this run
    jwt_call,     \* what the most recent get_valid_jwt call saw and did
    batch_size,   \* the batch_size the stages run with
    location_ids, \* the ids of the listing (location_data projected on "id")
    batch_idx,    \* enumerate(batch_list(...), start=1): the current chunk
    item_idx,     \* items of the current chunk already processed
    records,      \* the records list of the current chunk
    upserts,      \* per destination table, the upsert calls that succeeded
    fetched,      \* per stage, the items fetched, in order, and how each ended
    bearers,      \* the (request, bearer token) pairs sent to the remote API
    faults,       \* per-item requests not answered with a good document so far
    sink_failed,  \* whether the store has answered an upsert with an error
    failure,      \* <<>>, or the exception that ended the run and the state then
    remote_doc,   \* the "deployments" list the remote API holds for a location
    remote_detail,\* the nested sub-objects of the detail document it holds
    remote_ref,   \* the reference-measurements response it holds
    tables,       \* per destination table, the rows the store holds
    runs,         \* the number of runs of __main__ started so far
    pauses        \* per stage and item fetched, whether sleep(REQUEST_SLEEP) followed

vars == <<pc, now, api_tokens, issued, token, stage_token, jwt_calls, jwt_call,
          batch_size, location_ids, batch_idx, item_idx, records, upserts,
          fetched, bearers, faults, sink_failed, failure, remote_doc,
          remote_detail, remote_ref, tables, runs, pauses>>

Tables == {"v2", "v3", "ref", "dep"}
Stages == {"v3", "ref", "dep"}

\* ------------------------------------------------------- the environment
ProbeAnswers == {"200", "401", "ConnectionError"}

\* The authorization endpoint's answers: 200 with a fresh access_token and an
\* optional expires_in; 304 (no document); 401 and 500.
AuthAnswers(next) ==
    {[status |-> 200, body |-> <<[access_token |-> next, expires_in |-> e]>>] :
        e \in {<<>>, <<Lifetime>>}}
    \cup {[status |-> s, body |-> <<>>] : s \in {304, 401, 500}}

StoreAnswers == {"ok", "error"}

\* The listing of n locations: ids 1..n in the order the API returns them.
Listing(n) == [k \in 1..n |-> k]

\* The "deployments" list of a detail document: each entry is a deployment
\* object with its nodeId (its position in the list) and its numbers of
\* corrections and sensors, or null, or a value that is no object ("str").
DeploymentValues(i) ==
    {[kind |-> "dict", node_id |-> i, corrections |-> c, sensors |-> s] :
        c \in 0..MaxCorr, s \in 0..MaxSens}
    \cup {[kind |-> k, node_id |-> 0, corrections |-> 0, sensors |-> 0] : k \in {"null", "str"}}

RECURSIVE DocsOfLen(_)
DocsOfLen(n) ==
    IF n = 0 THEN {<<>>}
    ELSE {Append(d, v) : d \in DocsOfLen(n - 1), v \in DeploymentValues(n)}

Docs == UNION {DocsOfLen(n) : n \in 0..MaxDeps}

\* A series of n samples, rising or falling in steps of scale.
Samples(n, scale, rising) ==
    [k \in 1..n |-> IF rising THEN scale * k ELSE scale * (n + 1 - k)]

Series ==
    {<<>>} \cup {Samples(n, scale, rising) :
                    n \in 1..MaxSamples, scale \in {1, 10}, rising \in BOOLEAN}

\* The values of a field of a reference document.
FieldValues ==
    {Absent, None, Number(5), FieldValue("str", <<>>)}
    \cup {FieldValue("list", items) : items \in Series}

\* The objects: every pair of field values, and the object whose one key is
\* neither of the two fields.
Objects ==
    {Json("dict", [timestamps |-> a, waterGround_mm |-> b], 0) : a, b \in FieldValues}
    \cup {Json("dict", NoFields, 1)}

\* The values that are no object: null, [], 0, a list of one element, 1.
Scalars ==
    {Json("null", NoFields, 0)}
    \cup {Json(type, NoFields, n) : type \in {"list", "num"}, n \in {0, 1}}

\* The responses of the reference-measurements endpoint: an object, null, a
\* number or [] as it is; an object wrapping any value under
\* referenceMeasurements, with or without a timestamps field of its own; a
\* list whose first element is any value.
References ==
    {Response(v, <<>>, <<>>) : v \in Objects \cup (Scalars \ {Json("list", NoFields, 1)})}
    \cup {Response(Json("dict", NoFields, 1), <<inner>>, <<>>) : inner \in Objects \cup Scalars}
    \cup {Response(Json("dict", [timestamps |-> Number(5), waterGround_mm |-> Absent], 1),
                    <<inner>>, <<>>) : inner \in Scalars}
    \cup {Response(Json("list", NoFields, 1), <<>>, <<inner>>) : inner \in Objects \cup Scalars}

\* {"timestamps": [1, 2, 3], "waterGround_mm": [10, 20, 30]}
ExampleReference ==
    Response(Json("dict", [timestamps |-> FieldValue("list", <<1, 2, 3>>),
                           waterGround_mm |-> FieldValue("list", <<10, 20, 30>>)], 0),
             <<>>, <<>>)

\* The detail document with every nested sub-object; the id is filled in per
\* location.
FullDetail == Document(0, "dict", "dict", "dict", "dict")

\* What the remote API holds in a whole run of __main__: no deployments, a
\* complete detail document and the example reference response; one
\* deployment with one correction and one sensor, a detail document with a
\* null tube and a reference response of no accepted shape; or documents on
\* which every stage raises: a deployments entry that is no object, null
\* coordinates and a wrapped list.  The deployments stage is run on every document
\* of Docs under SpecDeployments, the reference stage on every response of
\* References under SpecReference.
RunRemotes ==
    {[deployments |-> <<>>, detail |-> FullDetail, reference |-> ExampleReference],
     [deployments |-> <<[kind |-> "dict", node_id |-> 1, corrections |-> 1, sensors |-> 1]>>,
      detail |-> Document(0, "dict", "null", "absent", "absent"),
      reference |-> Response(Json("dict", NoFields, 1), <<>>, <<>>)],
     [deployments |-> <<[kind |-> "str", node_id |-> 0, corrections |-> 0, sensors |-> 0]>>,
      detail |-> Document(0, "dict", "dict", "dict", "null"),
      reference |-> Response(Json("dict", NoFields, 1), <<Json("list", NoFields, 1)>>, <<>>)]}

NoCall == [site |-> "none", t |-> 0, before |-> <<>>, probe |-> "unused",
           auth |-> 0, ins |-> "unused", raised |-> NoError, value |-> NoToken, posts |-> 0, probes |-> 0]

\* An earlier run left api_tokens empty, or holding the row of a refresh made
\* at instant -1 whose token has expired (-1), expires at the instant the run
\* starts (0) or expires later (Lifetime).
Init ==
    /\ pc = "main_token"
    /\ now = 0
    /\ api_tokens \in {<<>>} \cup
            {<<TokenRow(-1, CachedJwt, e, 1)>> : e \in {-1, 0, Lifetime}}
    /\ issued = 0
    /\ token = NoToken
    /\ stage_token = NoToken
    /\ jwt_calls = 0
    /\ jwt_call = NoCall
    /\ batch_size \in 1..MaxBatch
    /\ location_ids = <<>>
    /\ batch_idx = 1
    /\ item_idx = 0
    /\ records = <<>>
    /\ upserts = [tb \in Tables |-> <<>>]
    /\ fetched = [st \in Stages |-> <<>>]
    /\ bearers = {}
    /\ faults = 0
    /\ sink_failed = FALSE
    /\ failure = <<>>
    /\ \E r \in RunRemotes :
        /\ remote_doc = r.deployments
        /\ remote_detail = r.detail
        /\ remote_ref = r.reference
    /\ tables = [tb \in Tables |-> <<>>]
    /\ runs = 1
    /\ pauses = [st \in Stages |-> <<>>]

\* An uncaught exception ends the run: nothing runs after it.
Abort(kind) ==
    /\ pc' = "aborted"
    /\ failure' = <<[kind |-> kind, at |-> pc, upserts |-> upserts, fetched |-> fetched]>>

\* One call of get_valid_jwt from call site pc; on return the token is bound
\* by the caller (bind is "main" or "stage") and the run goes on at next_pc.
CallGetValidJwt(bind, next_pc) ==
    \E t \in now..MaxTime, probe \in ProbeAnswers,
       auth \in AuthAnswers(CachedJwt + issued + 1), ins \in StoreAnswers :
        LET out == get_valid_jwt(api_tokens, t, probe, auth, ins)
        IN  /\ now' = t
            /\ api_tokens' = out.tbl
            /\ issued' = IF out.posts = 1 /\ auth.status = 200 THEN issued + 1 ELSE issued
            /\ jwt_calls' = jwt_calls + 1
            /\ jwt_call' = [site |-> pc, t |-> t, before |-> api_tokens,
                            probe |-> IF out.probes = 1 THEN probe ELSE "unused",
                            auth |-> IF out.posts = 1 THEN auth.status ELSE 0,
                            ins |-> IF out.posts = 1 /\ auth.status = 200 THEN ins ELSE "unused",
                            raised |-> out.raised, value |-> out.value,
                            posts |-> out.posts, probes |-> out.probes]
            /\ bearers' = IF out.probes = 1
                          THEN bearers \cup {<<"probe", load_most_recent_token(api_tokens)[1].jwt>>}
                          ELSE bearers
            /\ IF out.raised # NoError
               THEN /\ Abort(out.raised)
                    /\ UNCHANGED <<token, stage_token>>
               ELSE /\ pc' = next_pc
                    /\ failure' = failure
                    /\ token' = IF bind = "main" THEN out.value ELSE token
                    /\ stage_token' = IF bind = "stage" THEN out.value ELSE stage_token
            /\ UNCHANGED <<batch_size, location_ids, batch_idx, item_idx, records,
                           upserts, tables, fetched, faults, sink_failed, remote_doc,
                   remote_detail, remote_ref, runs, pauses>>

\* __main__: token = get_valid_jwt()
MainGetValidJwt ==
    /\ pc = "main_token"
    /\ CallGetValidJwt("main", "list")

\* Mutant: a failed listing is logged and the run goes on with no locations.
FetchLocationIdsSwallowed ==
    /\ pc = "list"
    /\ bearers' = bearers \cup {<<"list", token>>}
    /\ \E status \in {"200", "500"} :
        IF status = "200"
        THEN /\ \E n \in 0..MaxLocs : location_ids' = Listing(n)
             /\ failure' = failure
        ELSE /\ failure' = <<[kind |-> "HTTPError", at |-> pc, upserts |-> upserts,
                              fetched |-> fetched]>>
             /\ location_ids' = <<>>
    /\ pc' = "v2"
    /\ batch_idx' = 1
    /\ item_idx' = 0
    /\ records' = <<>>
    /\ UNCHANGED <<now, api_tokens, issued, token, stage_token, jwt_calls, jwt_call,
                   batch_size, upserts, tables, fetched, faults, sink_failed, remote_doc,
                   remote_detail, remote_ref, runs, pauses>>

\* __main__: location_ids, location_data = fetch_location_ids_from_api(token)
\* (GET /api/v2/locations, raise_for_status, the ids of the listing).
FetchLocationIds ==
    /\ pc = "list"
    /\ bearers' = bearers \cup {<<"list", token>>}
    /\ \E status \in {"200", "500"} :
        IF status = "200"
        THEN /\ \E n \in 0..MaxLocs : location_ids' = Listing(n)
             /\ pc' = "v2"
             /\ failure' = failure
        ELSE /\ Abort("HTTPError")
             /\ location_ids' = location_ids
    /\ batch_idx' = 1
    /\ item_idx' = 0
    /\ records' = <<>>
    /\ UNCHANGED <<now, api_tokens, issued, token, stage_token, jwt_calls, jwt_call,
                   batch_size, upserts, tables, fetched, faults, sink_failed, remote_doc,
                   remote_detail, remote_ref, runs, pauses>>

Chunks == batch_list(location_ids, batch_size)

\* The end of a stage function: the for loop over the chunks is exhausted.
StageReturn(next_pc) ==
    /\ batch_idx > Len(Chunks)
    /\ pc' = next_pc
    /\ batch_idx' = 1
    /\ item_idx' = 0
    /\ records' = <<>>
    /\ UNCHANGED <<now, api_tokens, issued, token, stage_token, jwt_calls, jwt_call,
                   batch_size, location_ids, upserts, tables, fetched, bearers, faults,
                   sink_failed, failure, remote_doc, remote_detail,
                   remote_ref, runs, pauses>>

\* The identifier a record carries for the store to resolve a conflict on:
\* "id" in the v2 and v3 records, "location_id" in the reference record; the
\* deployment rows carry none (several rows share a location_id, every other
\* column may be None and created_at is fresh at every emission).
Key(tb, r) ==
    IF tb = "dep" THEN <<>> ELSE IF tb = "ref" THEN <<r.location_id>> ELSE <<r.id>>

\* upsert of one record: the row with the record's identifier is replaced, a
\* record with a new identifier or with none is inserted.
UpsertRow(tb, rows, r) ==
    IF Key(tb, r) # <<>> /\ \E i \in 1..Len(rows) : Key(tb, rows[i]) = Key(tb, r)
    THEN [i \in 1..Len(rows) |-> IF Key(tb, rows[i]) = Key(tb, r) THEN r ELSE rows[i]]
    ELSE Append(rows, r)

\* sb.table(tb).upsert(records).execute() on the rows the table holds.
RECURSIVE Upsert(_, _, _)
Upsert(tb, rows, recs) ==
    IF recs = <<>> THEN rows ELSE Upsert(tb, UpsertRow(tb, rows, Head(recs)), Tail(recs))

\* Mutant: a failed upsert is logged and the chunk loop goes on.
UpsertChunkSwallowed(tb, recs) ==
    IF recs = <<>>
    THEN /\ upserts' = upserts
         /\ tables' = tables
         /\ pc' = pc
         /\ failure' = failure
         /\ sink_failed' = sink_failed
         /\ batch_idx' = batch_idx + 1
    ELSE \E ans \in StoreAnswers :
            /\ upserts' = IF ans = "ok" THEN [upserts EXCEPT ![tb] = Append(@, recs)]
                          ELSE upserts
            /\ tables' = IF ans = "ok" THEN [tables EXCEPT ![tb] = Upsert(tb, @, recs)]
                         ELSE tables
            /\ sink_failed' = (sink_failed \/ ans = "error")
            /\ pc' = pc
            /\ failure' = failure
            /\ batch_idx' = batch_idx + 1

\* `if records: sb.table(tb).upsert(records).execute()` followed by the next
\* iteration of the chunk loop.  The upsert is not wrapped in try/except.
UpsertChunk(tb, recs) ==
    IF recs = <<>>
    THEN /\ upserts' = upserts
         /\ tables' = tables
         /\ pc' = pc
         /\ failure' = failure
         /\ sink_failed' = sink_failed
         /\ batch_idx' = batch_idx + 1
    ELSE \E ans \in StoreAnswers :
            IF ans = "ok"
            THEN /\ upserts' = [upserts EXCEPT ![tb] = Append(@, recs)]
                 /\ tables' = [tables EXCEPT ![tb] = Upsert(tb, @, recs)]
                 /\ pc' = pc
                 /\ failure' = failure
                 /\ sink_failed' = sink_failed
                 /\ batch_idx' = batch_idx + 1
            ELSE /\ Abort("APIError")
                 /\ sink_failed' = TRUE
                 /\ upserts' = upserts
                 /\ tables' = tables
                 /\ batch_idx' = batch_idx

\* fetch_v2_location_record: a shallow remap of the summary; the record
\* keeps the summary's id.
fetch_v2_location_record(loc) == [id |-> loc]

\* store_v2_locations_batch: one iteration of the loop over the chunks.
StoreV2Batch ==
    /\ pc = "v2"
    /\ batch_idx <= Len(Chunks)
    /\ LET batch_locs == Chunks[batch_idx]
           recs == [k \in 1..Len(batch_locs) |-> fetch_v2_location_record(batch_locs[k])]
       IN  UpsertChunk("v2", recs)
    /\ UNCHANGED <<now, api_tokens, issued, token, stage_token, jwt_calls, jwt_call,
                   batch_size, location_ids, item_idx, records, fetched, bearers,
                   faults, remote_doc,
                   remote_detail, remote_ref, runs, pauses>>

StoreV2Return ==
    /\ pc = "v2"
    /\ StageReturn("v3_token")

\* The log entry of one processed item: its id and whether its try block
\* raised, ended without a record, or produced records.
Fetched(loc, out) ==
    [id |-> loc,
     out |-> IF out.raised THEN "raised" ELSE IF out.recs = <<>> THEN "none" ELSE "record"]

\* sleep(REQUEST_SLEEP) in the item loop: the statement after the try/except
\* in the v3 and the reference stage, reached however the try block ended;
\* the last statement of the try block in the deployments stage, not reached
\* when a statement before it raised.
Paused(stage, out) == IF stage = "dep" THEN ~out.raised ELSE TRUE

\* Mutant: no try/except around the item, an exception ends the run.
ProcessItemUncaught(stage, loc, bearer, answer, out) ==
    /\ answer # "200" => faults < MaxFaults
    /\ faults' = IF answer # "200" THEN faults + 1 ELSE faults
    /\ fetched' = [fetched EXCEPT ![stage] = Append(@, Fetched(loc, out))]
    /\ pauses' = [pauses EXCEPT ![stage] = Append(@, Paused(stage, out))]
    /\ bearers' = bearers \cup {<<stage, bearer>>}
    /\ records' = records \o out.recs
    /\ item_idx' = item_idx + 1
    /\ IF out.raised THEN Abort("HTTPError") ELSE UNCHANGED <<pc, failure>>
    /\ UNCHANGED <<now, api_tokens, issued, token, stage_token, jwt_calls,
                   jwt_call, batch_size, location_ids, batch_idx, upserts, tables,
                   sink_failed, remote_doc,
                   remote_detail, remote_ref, runs>>

\* The item loop of a fetching stage: the request carries the stage's bearer
\* token; out is what the try block did: the records it appended and whether
\* it raised (the except clause logs and the loop goes on).
ProcessItem(stage, loc, bearer, answer, out) ==
    /\ answer # "200" => faults < MaxFaults
    /\ faults' = IF answer # "200" THEN faults + 1 ELSE faults
    /\ fetched' = [fetched EXCEPT ![stage] = Append(@, Fetched(loc, out))]
    /\ pauses' = [pauses EXCEPT ![stage] = Append(@, Paused(stage, out))]
    /\ bearers' = bearers \cup {<<stage, bearer>>}
    /\ records' = records \o out.recs
    /\ item_idx' = item_idx + 1
    /\ UNCHANGED <<pc, now, api_tokens, issued, token, stage_token, jwt_calls,
                   jwt_call, batch_size, location_ids, batch_idx, upserts, tables,
                   sink_failed, failure, remote_doc, remote_detail,
                   remote_ref, runs>>

\* The end of a chunk of a fetching stage: `if records: upsert(records)`.
FinishChunk(tb) ==
    /\ UpsertChunk(tb, records)
    /\ item_idx' = 0
    /\ records' = <<>>
    /\ UNCHANGED <<now, api_tokens, issued, token, stage_token, jwt_calls, jwt_call,
                   batch_size, location_ids, fetched, bearers, faults, remote_doc,
                   remote_detail, remote_ref, runs, pauses>>

InChunk == batch_idx <= Len(Chunks) /\ item_idx < Len(Chunks[batch_idx])
ChunkDone == batch_idx <= Len(Chunks) /\ item_idx = Len(Chunks[batch_idx])

\* Mutant: the items of a chunk are taken from its end.
CurrentItemReversed == Chunks[batch_idx][Len(Chunks[batch_idx]) - item_idx]

\* for loc in batch: the item the loop is at.
CurrentItem == Chunks[batch_idx][item_idx + 1]

\* ---------------------------------------------------------------- v3 stage
\* store_v3_locations_to_blik_batch: token = get_valid_jwt()
StoreV3GetValidJwt ==
    /\ pc = "v3_token"
    /\ CallGetValidJwt("stage", "v3")

\* The try block of the v3 item loop: GET the detail, raise_for_status
\* (raises on "500"), flatten the document, append the record.
V3Try(loc, answer, detail) ==
    IF answer # "200" THEN [raised |-> TRUE, recs |-> <<>>]
    ELSE LET rec == flatten_v3_to_blik_location([detail EXCEPT !.id = loc])
         IN  [raised |-> rec.raised, recs |-> rec.value]

StoreV3Item ==
    /\ pc = "v3"
    /\ InChunk
    /\ \E answer \in {"200", "500"} :
        ProcessItem("v3", CurrentItem, stage_token, answer,
                    V3Try(CurrentItem, answer, remote_detail))

StoreV3Upsert ==
    /\ pc = "v3"
    /\ ChunkDone
    /\ FinishChunk("v3")

StoreV3Return ==
    /\ pc = "v3"
    /\ StageReturn("ref")

\* --------------------------------------------------------- reference stage
\* fetch_reference_measurement: GET, raise_for_status (raises on "500"),
\* flatten_reference of the response.
fetch_reference_measurement(location_id, answer, ref) ==
    IF answer # "200" THEN [raised |-> TRUE, value |-> <<>>]
    ELSE flatten_reference(location_id, ref)

\* The try block of the reference item loop: rec =
\* fetch_reference_measurement(...); if rec: records.append(rec).
ReferenceTry(loc, answer, ref) ==
    LET rec == fetch_reference_measurement(loc, answer, ref)
    IN  [raised |-> rec.raised, recs |-> rec.value]

\* Mutant: the reference stage sends the token the v3 stage acquired.
StoreReferenceItemStageToken ==
    /\ pc = "ref"
    /\ InChunk
    /\ \E answer \in {"200", "500"} :
        ProcessItem("ref", CurrentItem, stage_token, answer,
                    ReferenceTry(CurrentItem, answer, remote_ref))

StoreReferenceItem ==
    /\ pc = "ref"
    /\ InChunk
    /\ \E answer \in {"200", "500"} :
        ProcessItem("ref", CurrentItem, token, answer,
                    ReferenceTry(CurrentItem, answer, remote_ref))

StoreReferenceUpsert ==
    /\ pc = "ref"
    /\ ChunkDone
    /\ FinishChunk("ref")

StoreReferenceReturn ==
    /\ pc = "ref"
    /\ StageReturn("dep_token")

\* ------------------------------------------------------- deployments stage
\* store_location_deployments_flat_batch: token = get_valid_jwt()
StoreDeploymentsGetValidJwt ==
    /\ pc = "dep_token"
    /\ CallGetValidJwt("stage", "dep")

\* A deployment row: location_id, the deployment's nodeId, the correction
\* and the sensor it combines; 0 stands for None.
DeploymentRow(loc, node, corr, sensor) ==
    [location_id |-> loc, node_id |-> node, correction |-> corr, sensor |-> sensor]

\* d.get(key) if d and d.get(key) else [None], for a list of n entries.
OrPlaceholder(n) == IF n > 0 THEN [j \in 1..n |-> j] ELSE <<0>>

\* Mutant: a deployment without corrections or sensors yields no row.
DeploymentRowsNoPlaceholder(loc, d) ==
    [r \in 1..(d.corrections * d.sensors) |->
        DeploymentRow(loc, d.node_id, ((r - 1) \div d.sensors) + 1, ((r - 1) % d.sensors) + 1)]

\* The rows the two inner loops append for one deployment d (an object or
\* null): for corr in corrections: for sensor in sensors: records.append(...).
DeploymentRows(loc, d) ==
    LET corrections == OrPlaceholder(IF d.kind = "dict" THEN d.corrections ELSE 0)
        sensors     == OrPlaceholder(IF d.kind = "dict" THEN d.sensors ELSE 0)
        S           == Len(sensors)
    IN  [r \in 1..(Len(corrections) * S) |->
            DeploymentRow(loc, IF d.kind = "dict" THEN d.node_id ELSE 0,
                          corrections[((r - 1) \div S) + 1], sensors[((r - 1) % S) + 1])]

\* for d in deployments, from entry i on: a d that is no object makes d.get
\* raise; the rows appended for the entries before it stay in records.
RECURSIVE ExpandFrom(_, _, _)
ExpandFrom(loc, deployments, i) ==
    IF i > Len(deployments) THEN [raised |-> FALSE, recs |-> <<>>]
    ELSE IF deployments[i].kind = "str" THEN [raised |-> TRUE, recs |-> <<>>]
    ELSE LET rest == ExpandFrom(loc, deployments, i + 1)
         IN  [raised |-> rest.raised, recs |-> DeploymentRows(loc, deployments[i]) \o rest.recs]

NullDeployment == [kind |-> "null", node_id |-> 0, corrections |-> 0, sensors |-> 0]

\* The try block of the deployments item loop: GET the detail,
\* raise_for_status, deployments = loc_data.get("deployments") or [None],
\* then the expansion, each row appended to records as it is built.
DeploymentsTry(loc, answer, doc) ==
    IF answer # "200" THEN [raised |-> TRUE, recs |-> <<>>]
    ELSE ExpandFrom(loc, IF doc = <<>> THEN <<NullDeployment>> ELSE doc, 1)

StoreDeploymentsItem ==
    /\ pc = "dep"
    /\ InChunk
    /\ \E answer \in {"200", "500"} :
        ProcessItem("dep", CurrentItem, stage_token, answer,
                    DeploymentsTry(CurrentItem, answer, remote_doc))

StoreDeploymentsUpsert ==
    /\ pc = "dep"
    /\ ChunkDone
    /\ FinishChunk("dep")

StoreDeploymentsReturn ==
    /\ pc = "dep"
    /\ StageReturn("done")

Next ==
    \/ MainGetValidJwt
    \/ FetchLocationIds
    \/ StoreV2Batch
    \/ StoreV2Return
    \/ StoreV3GetValidJwt
    \/ StoreV3Item
    \/ StoreV3Upsert
    \/ StoreV3Return
    \/ StoreReferenceItem
    \/ StoreReferenceUpsert
    \/ StoreReferenceReturn
    \/ StoreDeploymentsGetValidJwt
    \/ StoreDeploymentsItem
    \/ StoreDeploymentsUpsert
    \/ StoreDeploymentsReturn

Spec == Init /\ [][Next]_vars

\* --------------------------------------- the deployments stage on its own
\* The state in which a run that reused a valid cached token and met no
\* failure enters the chunk loop of store_location_deployments_flat_batch,
\* for every listing, batch_size and detail document within the bounds.
InitDeployments ==
    /\ pc = "dep"
    /\ now = 0
    /\ api_tokens = <<TokenRow(-1, CachedJwt, Lifetime, 1)>>
    /\ issued = 0
    /\ token = CachedJwt
    /\ stage_token = CachedJwt
    /\ jwt_calls = 3
    /\ jwt_call = [site |-> "dep_token", t |-> 0, before |-> api_tokens,
                   probe |-> "200", auth |-> 0, ins |-> "unused", raised |-> NoError,
                   value |-> CachedJwt, posts |-> 0, probes |-> 1]
    /\ batch_size \in 1..MaxBatch
    /\ \E n \in 0..MaxLocs : location_ids = Listing(n)
    /\ batch_idx = 1
    /\ item_idx = 0
    /\ records = <<>>
    /\ remote_doc \in Docs
    /\ remote_detail = FullDetail
    /\ remote_ref = ExampleReference
    /\ upserts = [tb \in Tables |->
                    [c \in 1..(IF tb = "dep" THEN 0 ELSE Len(Chunks)) |->
                        [k \in 1..Len(Chunks[c]) |->
                            IF tb = "v2" THEN fetch_v2_location_record(Chunks[c][k])
                            ELSE IF tb = "v3" THEN V3Try(Chunks[c][k], "200", remote_detail).recs[1]
                            ELSE ReferenceTry(Chunks[c][k], "200", remote_ref).recs[1]]]]
    /\ tables = [tb \in Tables |->
                    [k \in 1..(IF tb = "dep" THEN 0 ELSE Len(location_ids)) |->
                        IF tb = "v2" THEN fetch_v2_location_record(location_ids[k])
                        ELSE IF tb = "v3" THEN V3Try(location_ids[k], "200", remote_detail).recs[1]
                        ELSE ReferenceTry(location_ids[k], "200", remote_ref).recs[1]]]
    /\ runs = 1
    /\ fetched = [st \in Stages |-> IF st = "dep" THEN <<>>
                    ELSE [k \in 1..Len(location_ids) |-> [id |-> location_ids[k], out |-> "record"]]]
    /\ pauses = [st \in Stages |-> [k \in 1..Len(fetched[st]) |-> TRUE]]
    /\ bearers = {<<rq, CachedJwt>> : rq \in {"probe", "list", "v3", "ref"}}
    /\ faults = 0
    /\ sink_failed = FALSE
    /\ failure = <<>>

NextDeployments ==
    \/ StoreDeploymentsItem
    \/ StoreDeploymentsUpsert
    \/ StoreDeploymentsReturn

SpecDeployments == InitDeployments /\ [][NextDeployments]_vars

\* ------------------------------------------ the reference stage on its own
\* The state in which a run that reused a valid cached token and met no
\* failure enters the chunk loop of store_reference_measurements_batch, for
\* every listing, batch_size and reference response within the bounds.
InitReference ==
    /\ pc = "ref"
    /\ now = 0
    /\ api_tokens = <<TokenRow(-1, CachedJwt, Lifetime, 1)>>
    /\ issued = 0
    /\ token = CachedJwt
    /\ stage_token = CachedJwt
    /\ jwt_calls = 2
    /\ jwt_call = [site |-> "v3_token", t |-> 0, before |-> api_tokens,
                   probe |-> "200", auth |-> 0, ins |-> "unused", raised |-> NoError,
                   value |-> CachedJwt, posts |-> 0, probes |-> 1]
    /\ batch_size \in 1..MaxBatch
    /\ \E n \in 0..MaxLocs : location_ids = Listing(n)
    /\ batch_idx = 1
    /\ item_idx = 0
    /\ records = <<>>
    /\ remote_doc = <<>>
    /\ remote_detail = FullDetail
    /\ remote_ref \in References
    /\ upserts = [tb \in Tables |->
                    [c \in 1..(IF tb \in {"ref", "dep"} THEN 0 ELSE Len(Chunks)) |->
                        [k \in 1..Len(Chunks[c]) |->
                            IF tb = "v2" THEN fetch_v2_location_record(Chunks[c][k])
                            ELSE V3Try(Chunks[c][k], "200", remote_detail).recs[1]]]]
    /\ tables = [tb \in Tables |->
                    [k \in 1..(IF tb \in {"ref", "dep"} THEN 0 ELSE Len(location_ids)) |->
                        IF tb = "v2" THEN fetch_v2_location_record(location_ids[k])
                        ELSE V3Try(location_ids[k], "200", remote_detail).recs[1]]]
    /\ runs = 1
    /\ fetched = [st \in Stages |-> IF st # "v3" THEN <<>>
                    ELSE [k \in 1..Len(location_ids) |-> [id |-> location_ids[k], out |-> "record"]]]
    /\ pauses = [st \in Stages |-> [k \in 1..Len(fetched[st]) |-> TRUE]]
    /\ bearers = {<<rq, CachedJwt>> : rq \in {"probe", "list", "v3"}}
    /\ faults = 0
    /\ sink_failed = FALSE
    /\ failure = <<>>

NextReference ==
    \/ StoreReferenceItem
    \/ StoreReferenceUpsert
    \/ StoreReferenceReturn

SpecReference == InitReference /\ [][NextReference]_vars

\* ------------------------------------------------ the v2 stage on its own
\* The state in which a run that reused a valid cached token enters the chunk
\* loop of store_v2_locations_batch, for every listing of up to MaxItems
\* locations and every batch_size up to MaxSize.
InitBatch ==
    /\ pc = "v2"
    /\ now = 0
    /\ api_tokens = <<TokenRow(-1, CachedJwt, Lifetime, 1)>>
    /\ issued = 0
    /\ token = CachedJwt
    /\ stage_token = NoToken
    /\ jwt_calls = 1
    /\ jwt_call = [site |-> "main_token", t |-> 0, before |-> api_tokens,
                   probe |-> "200", auth |-> 0, ins |-> "unused", raised |-> NoError,
                   value |-> CachedJwt, posts |-> 0, probes |-> 1]
    /\ batch_size \in 1..MaxSize
    /\ \E n \in 0..MaxItems : location_ids = Listing(n)
    /\ batch_idx = 1
    /\ item_idx = 0
    /\ records = <<>>
    /\ upserts = [tb \in Tables |-> <<>>]
    /\ fetched = [st \in Stages |-> <<>>]
    /\ bearers = {<<rq, CachedJwt>> : rq \in {"probe", "list"}}
    /\ faults = 0
    /\ sink_failed = FALSE
    /\ failure = <<>>
    /\ remote_doc = <<>>
    /\ remote_detail = FullDetail
    /\ remote_ref = ExampleReference
    /\ tables = [tb \in Tables |-> <<>>]
    /\ runs = 1
    /\ pauses = [st \in Stages |-> <<>>]

NextBatch ==
    \/ StoreV2Batch
    \/ StoreV2Return

SpecBatch == InitBatch /\ [][NextBatch]_vars

\* ------------------------------------------------------- __main__ run again
\* The script is started again after a run that completed or aborted in the
\* deployments stage: a new process, against the same store and the same
\* remote data, that meets no failure before it enters the chunk loop of the
\* deployments stage again.  On its way the v2, v3 and reference stages
\* upsert the records they upserted before.
Replay ==
    /\ pc \in {"done", "aborted"}
    /\ runs < MaxRuns
    /\ runs' = runs + 1
    /\ pc' = "dep"
    /\ batch_idx' = 1
    /\ item_idx' = 0
    /\ records' = <<>>
    /\ upserts' = [upserts EXCEPT !["dep"] = <<>>]
    /\ tables' = [tb \in Tables |->
                    IF tb = "dep" THEN tables[tb]
                    ELSE Upsert(tb, tables[tb], Concat(upserts[tb]))]
    /\ fetched' = [fetched EXCEPT !["dep"] = <<>>]
    /\ pauses' = [pauses EXCEPT !["dep"] = <<>>]
    /\ faults' = 0
    /\ sink_failed' = FALSE
    /\ failure' = <<>>
    /\ UNCHANGED <<now, api_tokens, issued, token, stage_token, jwt_calls, jwt_call,
                   batch_size, location_ids, bearers, remote_doc, remote_detail,
                   remote_ref>>

NextReplay ==
    \/ StoreDeploymentsItem
    \/ StoreDeploymentsUpsert
    \/ StoreDeploymentsReturn
    \/ Replay

SpecReplay == InitDeployments /\ [][NextReplay]_vars

\* ================================================================= claims
CeilDiv(n, d) == (n + d - 1) \div d

Ids(recs) == [k \in 1..Len(recs) |-> recs[k].id]

\* C1: for a list of n >= 0 items and a batch_size >= 1, batch_list yields
\* ceil(n / batch_size) chunks whose concatenation in yield order is the list;
\* no chunk is empty or longer than batch_size and every chunk but the last
\* has exactly batch_size items.  The chunk loop consumes them in that order:
\* while no upsert failed, the chunks upserted so far are the first
\* batch_idx - 1 chunks.
C1_BatchListPartition ==
    LET chunks == batch_list(location_ids, batch_size)
        n      == Len(location_ids)
    IN  /\ Len(chunks) = CeilDiv(n, batch_size)
        /\ Concat(chunks) = location_ids
        /\ \A c \in 1..Len(chunks) :
            /\ Len(chunks[c]) >= 1
            /\ Len(chunks[c]) <= batch_size
            /\ c < Len(chunks) => Len(chunks[c]) = batch_size
        /\ n = 0 => chunks = <<>>
        /\ (pc = "v2" /\ failure = <<>>) =>
            /\ Len(upserts["v2"]) = batch_idx - 1
            /\ \A c \in 1..Len(upserts["v2"]) : Ids(upserts["v2"][c]) = chunks[c]

\* A list that does not divide evenly: full chunks, then a shorter last one,
\* all of them upserted.
C1_Witness ==
    /\ pc = "v3_token"
    /\ Len(location_ids) > batch_size
    /\ batch_size > 1
    /\ Len(location_ids) % batch_size # 0
    /\ Len(upserts["v2"]) = CeilDiv(Len(location_ids), batch_size)

Latest(tbl) == load_most_recent_token(tbl)[1]

Called == jwt_call.site # "none"

\* C2: credential reuse.  When the most recently created row expires in the
\* future and the probe answers 200, get_valid_jwt returns that row's jwt,
\* posts nothing to the authorization endpoint and inserts no row.
C2_CredentialReuse ==
    (/\ Called
     /\ jwt_call.before # <<>>
     /\ Latest(jwt_call.before).expires_at > jwt_call.t
     /\ jwt_call.probe = "200")
    => /\ jwt_call.raised = NoError
       /\ jwt_call.value = Latest(jwt_call.before).jwt
       /\ jwt_call.posts = 0
       /\ api_tokens = jwt_call.before

C2_Witness ==
    /\ Called
    /\ jwt_call.before # <<>>
    /\ Latest(jwt_call.before).expires_at > jwt_call.t
    /\ jwt_call.probe = "200"
    /\ jwt_call.value = CachedJwt

\* The cached credential is missing or expired when the call is made.
NeedsRefresh ==
    \/ jwt_call.before = <<>>
    \/ Latest(jwt_call.before).expires_at < jwt_call.t

\* C3: credential refresh.  When no row exists or the most recently created
\* row has expired, and neither the authorization endpoint nor the store
\* answers with a failure, one call of get_valid_jwt posts to the
\* authorization endpoint exactly once (and probes nothing), inserts exactly
\* one row, holding the new token, and returns the new token, not the cached one.
C3_CredentialRefresh ==
    (/\ Called
     /\ NeedsRefresh
     /\ jwt_call.auth \in {0, 200}
     /\ jwt_call.ins # "error")
    => /\ jwt_call.posts = 1
       /\ jwt_call.probes = 0
       /\ jwt_call.raised = NoError
       /\ Len(api_tokens) = Len(jwt_call.before) + 1
       /\ SubSeq(api_tokens, 1, Len(jwt_call.before)) = jwt_call.before
       /\ api_tokens[Len(api_tokens)].jwt = jwt_call.value
       /\ api_tokens[Len(api_tokens)].id = jwt_call.t
       /\ jwt_call.value = CachedJwt + issued
       /\ \A k \in 1..Len(jwt_call.before) : jwt_call.before[k].jwt # jwt_call.value

\* An expired cached row is replaced by a fresh one.
C3_Witness ==
    /\ Called
    /\ jwt_call.before # <<>>
    /\ Latest(jwt_call.before).expires_at < jwt_call.t
    /\ jwt_call.posts = 1
    /\ jwt_call.raised = NoError
    /\ Len(api_tokens) = Len(jwt_call.before) + 1

\* C4: every failure of the validation probe of an unexpired cached token,
\* a non-200 status or a transport-level exception, is treated as "token
\* invalid" and leads to a refresh; it never reaches the caller as an error.
C4_ProbeFailureRefreshes ==
    (Called /\ jwt_call.probe \in {"401", "ConnectionError"})
    => /\ jwt_call.posts = 1
       /\ jwt_call.raised # "ConnectionError"

\* C5: when the authorization endpoint answers a refresh with a non-2xx
\* status, get_valid_jwt raises: no token is returned (the cached one
\* neither), no row is inserted, and the run ends there: the caller binds no
\* token and nothing that follows the call site is fetched or upserted.
C5_RefreshFailurePropagates ==
    (Called /\ jwt_call.posts = 1 /\ jwt_call.auth # 200)
    => /\ jwt_call.raised # NoError
       /\ jwt_call.value = NoToken
       /\ api_tokens = jwt_call.before
       /\ pc = "aborted"
       /\ failure # <<>>
       /\ failure[1].at = jwt_call.site
       /\ jwt_call.site = "main_token" =>
            /\ token = NoToken
            /\ \A b \in bearers : b[1] = "probe"
            /\ \A tb \in Tables : upserts[tb] = <<>>
       /\ jwt_call.site = "v3_token" =>
            /\ \A st \in Stages : fetched[st] = <<>>
            /\ \A tb \in Tables \ {"v2"} : upserts[tb] = <<>>
       /\ jwt_call.site = "dep_token" =>
            /\ fetched["dep"] = <<>>
            /\ upserts["dep"] = <<>>
            /\ \A b \in bearers : b[1] # "dep"

\* The refresh of an invalid cached token is rejected with a 401.
C5_Witness ==
    /\ Called
    /\ jwt_call.before # <<>>
    /\ jwt_call.posts = 1
    /\ jwt_call.auth = 401
    /\ pc = "aborted"

\* The order of the call sites of __main__ and of the stages they start.
PcOrder == <<"main_token", "list", "v2", "v3_token", "v3", "ref", "dep_token", "dep", "done">>

PcPos == [p \in Range(PcOrder) |-> CHOOSE i \in 1..Len(PcOrder) : PcOrder[i] = p]

Pos(p) == PcPos[p]

StageReturned(st) == failure = <<>> /\ Pos(pc) > Pos(st)

RecId(st, r) == IF st \in {"dep", "ref"} THEN r.location_id ELSE r.id

\* The ids with a record in an upsert of stage st, and in the chunk being built.
Written(st) ==
    UNION {{RecId(st, upserts[st][c][k]) : k \in 1..Len(upserts[st][c])} :
            c \in 1..Len(upserts[st])}

Pending(st) == IF pc = st THEN {RecId(st, records[k]) : k \in 1..Len(records)} ELSE {}

\* The positions of location_ids that chunk c covers.
ChunkItems(c) ==
    {k \in 1..Len(location_ids) : (c - 1) * batch_size < k /\ k <= c * batch_size}

\* C6: per-item fault isolation in the v3, reference and deployments stages.
\* An item whose fetch or transform raises never ends the stage (a stage is
\* only ever aborted by its upsert); the items are processed one after the
\* other in input order whatever became of the earlier ones, a stage that
\* returns has processed them all, and the record of every item that was
\* processed successfully is in its chunk's records and in the stage's upsert.
C6_FaultIsolation ==
    /\ (failure # <<>> /\ failure[1].at \in Stages) =>
            (failure[1].kind = "APIError" /\ sink_failed)
    /\ \A st \in Stages :
        /\ Len(fetched[st]) <= Len(location_ids)
        /\ \A k \in 1..Len(fetched[st]) : fetched[st][k].id = location_ids[k]
        /\ pc = st =>
            Len(fetched[st]) =
                Cardinality({k \in 1..Len(location_ids) : k <= (batch_idx - 1) * batch_size})
                + item_idx
        /\ StageReturned(st) =>
            /\ Len(fetched[st]) = Len(location_ids)
            /\ \A k \in 1..Len(fetched[st]) :
                fetched[st][k].out = "record" => fetched[st][k].id \in Written(st)
        /\ failure = <<>> =>
            \A k \in 1..Len(fetched[st]) :
                fetched[st][k].out = "record" =>
                    fetched[st][k].id \in Written(st) \cup Pending(st)

\* In the deployments stage one item raised, a later item was processed and
\* its rows were upserted, and the run completed.
C6_Witness ==
    /\ pc = "done"
    /\ \E k, m \in 1..Len(fetched["dep"]) :
        /\ k < m
        /\ fetched["dep"][k].out = "raised"
        /\ fetched["dep"][m].out = "record"
        /\ fetched["dep"][m].id \in Written("dep")

\* C7: an item whose processing raises contributes no record to the records
\* passed to upsert, in every stage, also when a location of the deployments
\* stage raises part-way through its expansion.
C7_FailedItemOmitted ==
    \A st \in Stages : \A k \in 1..Len(fetched[st]) :
        fetched[st][k].out = "raised" =>
            fetched[st][k].id \notin Written(st) \cup Pending(st)

\* The upsert calls of stage st, each as the set of ids it carried.
CallIds(st) ==
    [c \in 1..Len(upserts[st]) |->
        {RecId(st, upserts[st][c][k]) : k \in 1..Len(upserts[st][c])}]

\* The ids that the first upto chunks of stage st had to upsert: for v2 every
\* item of the chunk, for a fetching stage the items that produced records;
\* a chunk without records makes no call.
ChunkIds(st, c) ==
    IF st = "v2" THEN {location_ids[k] : k \in ChunkItems(c)}
    ELSE {location_ids[k] : k \in {j \in ChunkItems(c) :
            j <= Len(fetched[st]) /\ fetched[st][j].out = "record"}}

NonEmpty(x) == x # {}

ExpectedCalls(st, upto) == SelectSeq([c \in 1..upto |-> ChunkIds(st, c)], NonEmpty)

\* C8: a store failure on a chunk's upsert is not caught.  It ends the stage
\* and the run at that chunk: the chunks upserted before it are written and
\* stay so, no item of a later chunk is fetched, no later stage fetches or
\* upserts anything, and no further token is acquired.
C8_SinkFailureAborts ==
    sink_failed =>
        /\ pc = "aborted"
        /\ failure # <<>>
        /\ failure[1].kind = "APIError"
        /\ failure[1].at \in Tables
        /\ upserts = failure[1].upserts
        /\ fetched = failure[1].fetched
        /\ LET st == failure[1].at
           IN  /\ CallIds(st) = ExpectedCalls(st, batch_idx - 1)
               /\ st \in Stages =>
                    Len(fetched[st]) =
                        Cardinality({k \in 1..Len(location_ids) : k <= batch_idx * batch_size})
               /\ \A tb \in Tables : Pos(tb) > Pos(st) => upserts[tb] = <<>>
               /\ \A s2 \in Stages : Pos(s2) > Pos(st) =>
                    (fetched[s2] = <<>> /\ \A b \in bearers : b[1] # s2)
               /\ Pos(jwt_call.site) < Pos(st)

\* The second chunk of the v3 stage fails to upsert after the first was written.
C8_Witness ==
    /\ sink_failed
    /\ failure # <<>>
    /\ failure[1].at = "v3"
    /\ Len(upserts["v3"]) >= 1
    /\ batch_idx = 2

\* The (call, position) pairs of the deployment rows upserted for loc, and
\* the positions of its rows in the chunk being built.
UpsertedRows(loc) ==
    UNION {{<<c, k>> : k \in {j \in 1..Len(upserts["dep"][c]) :
                                upserts["dep"][c][j].location_id = loc}} :
            c \in 1..Len(upserts["dep"])}

PendingRows(loc) ==
    IF pc = "dep" THEN {k \in 1..Len(records) : records[k].location_id = loc} ELSE {}

Combination(r) == <<r.node_id, r.correction, r.sensor>>

\* The (deployment, correction, sensor) combinations of the rows of loc.
RowCombinations(loc) ==
    {Combination(upserts["dep"][ck[1]][ck[2]]) : ck \in UpsertedRows(loc)}
    \cup {Combination(records[k]) : k \in PendingRows(loc)}

AtLeastOne(n) == IF n > 1 THEN n ELSE 1

\* sum over the deployments d of max(1, corrections(d)) * max(1, sensors(d)).
RECURSIVE CrossJoinSize(_)
CrossJoinSize(doc) ==
    IF doc = <<>> THEN 0
    ELSE AtLeastOne(Head(doc).corrections) * AtLeastOne(Head(doc).sensors)
         + CrossJoinSize(Tail(doc))

\* The combinations of a document: each correction, or the null placeholder,
\* with each sensor, or the null placeholder, of each deployment.
CrossJoin(doc) ==
    IF doc = <<>> THEN {<<0, 0, 0>>}
    ELSE UNION {{<<doc[i].node_id, c, x>> :
                    c \in (IF doc[i].corrections = 0 THEN {0} ELSE 1..doc[i].corrections),
                    x \in (IF doc[i].sensors = 0 THEN {0} ELSE 1..doc[i].sensors)} :
                i \in 1..Len(doc)}

\* Two deployments, the first with 2 corrections and 1 sensor, the second
\* with neither.
ExampleDoc ==
    <<[kind |-> "dict", node_id |-> 1, corrections |-> 2, sensors |-> 1],
      [kind |-> "dict", node_id |-> 2, corrections |-> 0, sensors |-> 0]>>

C10_OneTokenPerRun ==
    /\ jwt_calls <= 1
    /\ \A b \in bearers : b[1] # "probe" => b[2] = token

\* C11: when the listing call is answered with a non-2xx status the run
\* aborts there: no stage starts, no per-item fetch is made, no upsert reaches
\* any destination table and no further token is acquired.
C11_ListFailureAborts ==
    (failure # <<>> /\ failure[1].at = "list") =>
        /\ pc = "aborted"
        /\ failure[1].kind = "HTTPError"
        /\ location_ids = <<>>
        /\ \A tb \in Tables : upserts[tb] = <<>>
        /\ \A st \in Stages : fetched[st] = <<>>
        /\ \A b \in bearers : b[1] \in {"probe", "list"}
        /\ jwt_calls = 1
        /\ stage_token = NoToken

\* The listing failed after the token was acquired by a refresh.
C11_Witness ==
    /\ pc = "aborted"
    /\ failure # <<>>
    /\ failure[1].at = "list"
    /\ token # NoToken
    /\ token # CachedJwt
    /\ <<"list", token>> \in bearers

\* An object that contains key timestamps / referenceMeasurements.
HasTimestamps(ref) == ref.type = "dict" /\ ref.fields.timestamps.kind # "absent"
HasWrapper(ref) == ref.type = "dict" /\ ref.wrapped # <<>>

\* A falsy or empty response: null, 0, {} or [].
Falsy(ref) ==
    \/ ref.type = "null"
    \/ ref.type \in {"list", "num"} /\ ref.n = 0
    \/ ref.type = "dict" /\ ref.n = 0 /\ ref.wrapped = <<>>
        /\ \A key \in DOMAIN ref.fields : ref.fields[key].kind = "absent"

\* A response of none of the three accepted shapes.
NoAcceptedShape(ref) ==
    \/ Falsy(ref)
    \/ ~(HasTimestamps(ref) \/ HasWrapper(ref) \/ (ref.type = "list" /\ ref.n > 0))

\* The reference records upserted so far and those of the chunk being built.
ReferenceRecords ==
    UNION {Range(upserts["ref"][c]) : c \in 1..Len(upserts["ref"])}
    \cup (IF pc = "ref" THEN Range(records) ELSE {})

\* C12: flatten_reference returns null for every falsy or empty response and
\* for every response that is neither an object containing timestamps, nor an
\* object containing referenceMeasurements, nor a non-empty list; in the
\* reference stage a location whose response flattens to null adds no record
\* to its chunk (so nothing is upserted for it) and the locations after it
\* are processed all the same.
C12_NullReferenceSkipped ==
    NoAcceptedShape(remote_ref) =>
        /\ \A k \in 1..Len(location_ids) :
            flatten_reference(location_ids[k], remote_ref) = [raised |-> FALSE, value |-> <<>>]
        /\ ReferenceRecords = {}
        /\ tables["ref"] = <<>>
        /\ failure = <<>>
        /\ \A k \in 1..Len(fetched["ref"]) :
            /\ fetched["ref"][k].id = location_ids[k]
            /\ fetched["ref"][k].out \in {"none", "raised"}
            /\ faults = 0 => fetched["ref"][k].out = "none"
        /\ pc = "ref" =>
            Len(fetched["ref"]) =
                Cardinality({k \in 1..Len(location_ids) : k <= (batch_idx - 1) * batch_size})
                + item_idx
        /\ pc # "ref" => Len(fetched["ref"]) = Len(location_ids)

\* Two locations whose response is an object with neither key: both were
\* processed, neither left a record and the stage returned.
C12_Witness ==
    /\ pc = "dep_token"
    /\ remote_ref = Response(Json("dict", NoFields, 1), <<>>, <<>>)
    /\ Len(fetched["ref"]) = 2
    /\ \A k \in 1..2 : fetched["ref"][k].out = "none"
    /\ upserts["ref"] = <<>>

\* The normalized source of a response: the response itself when it is an
\* object with timestamps, else the value under referenceMeasurements, else
\* the first element of a non-empty list; <<>> when there is none.
NormalizedSource(ref) ==
    IF HasTimestamps(ref) THEN <<Json(ref.type, ref.fields, ref.n)>>
    ELSE IF HasWrapper(ref) THEN ref.wrapped
    ELSE IF ref.type = "list" /\ ref.n > 0 THEN ref.first
    ELSE <<>>

\* What the latest sample of a field is: the last element of a non-empty
\* series, a number itself, null (<<>>) for an empty series, for a missing
\* field, for null and for a string that is no number.
LatestSample(field) ==
    IF field.kind = "list" /\ field.items # <<>> THEN <<field.items[Len(field.items)]>>
    ELSE IF field.kind = "num" THEN field.items
    ELSE <<>>

\* C13: reference flattening selects the latest sample.  When the normalized
\* source is an object, flatten_reference does not raise and every record of
\* the reference stage holds, for each field that is a non-empty series, the
\* series' last element, whatever the length of the other series, and null
\* for a field that is an empty series or is missing; timestamps [1, 2, 3]
\* and waterGround_mm [10, 20, 30] give timestamp = 3 and waterground_mm = 30.
C13_LatestSample ==
    LET src == NormalizedSource(remote_ref)
    IN  (~Falsy(remote_ref) /\ src # <<>> /\ src[1].type = "dict") =>
            /\ \A k \in 1..Len(location_ids) :
                LET out == flatten_reference(location_ids[k], remote_ref)
                IN  /\ ~out.raised
                    /\ out.value # <<>>
                    /\ out.value[1].location_id = location_ids[k]
            /\ \A rec \in ReferenceRecords :
                /\ rec.timestamp = LatestSample(src[1].fields.timestamps)
                /\ rec.waterground_mm = LatestSample(src[1].fields.waterGround_mm)
                /\ remote_ref = ExampleReference =>
                    (rec.timestamp = <<3>> /\ rec.waterground_mm = <<30>>)
            /\ \A k \in 1..Len(fetched["ref"]) :
                /\ fetched["ref"][k].out \in {"record", "raised"}
                /\ faults = 0 => fetched["ref"][k].out = "record"
                /\ (fetched["ref"][k].out = "record" /\ failure = <<>>) =>
                    \E rec \in ReferenceRecords : rec.location_id = fetched["ref"][k].id

\* Series of different lengths, timestamps [1, 2, 3] and waterGround_mm
\* [20, 10], wrapped under referenceMeasurements: the record upserted holds
\* the last element of each.
C13_Witness ==
    /\ pc = "dep_token"
    /\ HasWrapper(remote_ref)
    /\ remote_ref.wrapped[1].fields.timestamps = FieldValue("list", <<1, 2, 3>>)
    /\ remote_ref.wrapped[1].fields.waterGround_mm = FieldValue("list", <<20, 10>>)
    /\ upserts["ref"] # <<>>
    /\ \E rec \in ReferenceRecords : rec.timestamp = <<3>> /\ rec.waterground_mm = <<10>>

\* C14: the record flatteners are total.  An item of the v3 or of the
\* reference stage whose fetch is answered with a document never ends in the
\* except clause: flatten_v3_to_blik_location and flatten_reference return a
\* record or null for it and never raise.
C14_FlattenersTotal ==
    faults = 0 =>
        \A st \in {"v3", "ref"} : \A k \in 1..Len(fetched[st]) :
            fetched[st][k].out # "raised"

\* The rows one complete run writes to a table for the remote data as it
\* is, in the order it writes them.
CompleteRun(tb) ==
    Concat([k \in 1..Len(location_ids) |->
        IF tb = "v2" THEN <<fetch_v2_location_record(location_ids[k])>>
        ELSE IF tb = "v3" THEN V3Try(location_ids[k], "200", remote_detail).recs
        ELSE IF tb = "ref" THEN ReferenceTry(location_ids[k], "200", remote_ref).recs
        ELSE DeploymentsTry(location_ids[k], "200", remote_doc).recs])

\* C15: idempotent replay.  After the script has been run again to the end
\* against unchanged remote data, whether the run before it completed or
\* aborted part-way, every destination table (v2, v3, reference and
\* deployments) holds the rows of one complete run and no row besides them.
C15_IdempotentReplay ==
    (runs > 1 /\ pc = "done" /\ failure = <<>> /\ faults = 0) =>
        \A tb \in Tables : tables[tb] = CompleteRun(tb)

\* C16: get_valid_jwt returns the cached token without a refresh only if
\* now < expiry holds strictly at the time of the call and the probe
\* succeeded; a cached credential with expiry = now is not reused.
C16_StrictExpiry ==
    (Called /\ jwt_call.raised = NoError /\ jwt_call.posts = 0) =>
        /\ jwt_call.before # <<>>
        /\ jwt_call.t < Latest(jwt_call.before).expires_at
        /\ jwt_call.probe = "200"

\* The row of a table that was created last.
MostRecent(tbl) == CHOOSE r \in Range(tbl) : \A q \in Range(tbl) : q.created_at <= r.created_at

\* C17: whenever get_valid_jwt returns a token, it is the jwt of the most
\* recently created row of api_tokens at the moment of return.  A freshly
\* issued token is persisted before it is returned, as a row created after
\* all others, and when persisting fails no token is returned and no row is
\* added; a reused token is the one of the latest row.
C17_ReturnedTokenIsLatest ==
    Called =>
        /\ jwt_call.raised = NoError =>
            /\ jwt_call.value # NoToken
            /\ api_tokens # <<>>
            /\ MostRecent(api_tokens).jwt = jwt_call.value
        /\ (jwt_call.raised = NoError /\ jwt_call.posts = 1) =>
            /\ Len(api_tokens) = Len(jwt_call.before) + 1
            /\ MostRecent(api_tokens) = api_tokens[Len(api_tokens)]
            /\ \A q \in Range(jwt_call.before) :
                q.created_at < MostRecent(api_tokens).created_at
        /\ (jwt_call.raised = NoError /\ jwt_call.posts = 0) =>
            /\ api_tokens = jwt_call.before
            /\ jwt_call.value = MostRecent(jwt_call.before).jwt
        /\ jwt_call.ins = "error" =>
            /\ jwt_call.raised # NoError
            /\ jwt_call.value = NoToken
            /\ api_tokens = jwt_call.before
            /\ pc = "aborted"

\* The deployments stage reuses the token that an earlier acquisition of the
\* same run issued: the latest of two rows, not the one cached before the run.
C17_Witness ==
    /\ jwt_call.site = "dep_token"
    /\ jwt_call.raised = NoError
    /\ jwt_call.posts = 0
    /\ Len(jwt_call.before) = 2
    /\ jwt_call.value = jwt_call.before[2].jwt
    /\ jwt_call.value # CachedJwt

\* The chunk an item of the listing belongs to.
ChunkOf(id) ==
    LET k == CHOOSE j \in 1..Len(location_ids) : location_ids[j] = id
    IN  ((k - 1) \div batch_size) + 1

\* The chunk whose records an upsert call carried (that of its first record).
CallChunk(tb, c) == ChunkOf(RecId(tb, upserts[tb][c][1]))

\* The position the run is at, or was at when it aborted.
RunPos == IF pc = "aborted" THEN Pos(failure[1].at) ELSE Pos(pc)

\* C18: in every stage upsert is called at most once per chunk, after all
\* items of the chunk have been processed, and only when the chunk produced
\* at least one record: it is never called with an empty record list, and a
\* stage in which every item failed performs no upsert and still completes
\* without error.
C18_UpsertPerChunk ==
    \A tb \in Tables :
        /\ \A c \in 1..Len(upserts[tb]) :
            /\ upserts[tb][c] # <<>>
            /\ \A k \in 1..Len(upserts[tb][c]) :
                ChunkOf(RecId(tb, upserts[tb][c][k])) = CallChunk(tb, c)
            /\ c > 1 => CallChunk(tb, c - 1) < CallChunk(tb, c)
            /\ pc = tb => CallChunk(tb, c) < batch_idx
            /\ tb \in Stages =>
                \A j \in 1..Len(location_ids) :
                    ChunkOf(location_ids[j]) = CallChunk(tb, c) => j <= Len(fetched[tb])
        /\ (/\ tb \in Stages
            /\ \A k \in 1..Len(fetched[tb]) : fetched[tb][k].out = "raised") =>
                /\ upserts[tb] = <<>>
                /\ ~(pc = "aborted" /\ failure[1].at = tb)

\* C19: within a stage that meets no store failure every input item is
\* fetched or transformed exactly once, in input order; the chunks are
\* upserted in input order; and the upsert of chunk k comes after the last
\* item of chunk k is processed and before the first item of chunk k + 1 is
\* fetched: while the stage is at chunk batch_idx, exactly the items of the
\* chunks before it and the first item_idx items of it have been fetched, and
\* exactly the chunks before it that produced records have been upserted.
C19_StageOrder ==
    failure = <<>> =>
        LET chunks == Chunks
            at     == Pos(pc)
        IN  /\ at >= Pos("v2") =>
                LET done == IF pc = "v2" THEN batch_idx - 1 ELSE Len(chunks)
                IN  /\ Len(upserts["v2"]) = done
                    /\ \A c \in 1..done : Ids(upserts["v2"][c]) = chunks[c]
            /\ \A st \in Stages :
                LET done == IF pc = st THEN batch_idx - 1
                            ELSE IF at > Pos(st) THEN Len(chunks) ELSE 0
                    seen == Len(Concat(SubSeq(chunks, 1, done)))
                            + (IF pc = st THEN item_idx ELSE 0)
                    ups  == upserts[st]
                    call == [c \in 1..Len(ups) |-> CallChunk(st, c)]
                IN  /\ Len(fetched[st]) = seen
                    /\ \A k \in 1..seen : fetched[st][k].id = location_ids[k]
                    /\ \A c \in 1..Len(ups) :
                        /\ call[c] <= done
                        /\ c > 1 => call[c - 1] < call[c]
                        /\ \A k \in 1..Len(ups[c]) :
                            /\ ChunkOf(RecId(st, ups[c][k])) = call[c]
                            /\ k > 1 => RecId(st, ups[c][k - 1]) <= RecId(st, ups[c][k])
                    /\ \A k \in 1..seen :
                        (fetched[st][k].out = "record" /\ ChunkOf(location_ids[k]) <= done) =>
                            \E c \in 1..Len(ups) : call[c] = ChunkOf(location_ids[k])

\* Two chunks of one item each: every stage fetched both items and upserted
\* the two chunks in input order.
C19_Witness ==
    /\ pc = "done"
    /\ batch_size = 1
    /\ Len(location_ids) = 2
    /\ \A st \in Stages :
        /\ Len(fetched[st]) = 2
        /\ Len(upserts[st]) = 2
        /\ CallChunk(st, 1) = 1
        /\ CallChunk(st, 2) = 2

\* C20: one run performs, in this order and each only after the one before
\* it returned: token acquisition, location listing, v2 stage, v3 stage,
\* reference stage, deployments stage.  The v3 and the deployments stage each
\* call get_valid_jwt again before their first fetch and send the token that
\* call returned; the listing and the reference stage send the token
\* acquired at the start of the run, also when a later acquisition has
\* refreshed the credential; the v2 stage sends no request.
C20_RunSequence ==
    LET at      == RunPos
        aborted == pc = "aborted"
    IN  /\ jwt_calls = (IF at > Pos("dep_token") \/ (aborted /\ at = Pos("dep_token")) THEN 3
                        ELSE IF at > Pos("v3_token") \/ (aborted /\ at = Pos("v3_token")) THEN 2
                        ELSE IF at > Pos("main_token") \/ aborted THEN 1
                        ELSE 0)
        /\ at <= Pos("list") => location_ids = <<>>
        /\ \A tb \in Tables : upserts[tb] # <<>> => at >= Pos(tb)
        /\ at > Pos("v2") => Len(upserts["v2"]) = Len(Chunks)
        /\ \A st \in Stages :
            /\ fetched[st] # <<>> => at >= Pos(st)
            /\ at > Pos(st) => Len(fetched[st]) = Len(location_ids)
        /\ \A b \in bearers :
            /\ b[1] \in {"probe", "list", "v3", "ref", "dep"}
            /\ b[1] = "list" => (b[2] = token /\ at >= Pos("list"))
            /\ b[1] = "ref" => (b[2] = token /\ at >= Pos("ref"))
            /\ b[1] = "v3" => (/\ at >= Pos("v3")
                               /\ at <= Pos("dep_token") => b[2] = stage_token)
            /\ b[1] = "dep" => (at >= Pos("dep") /\ b[2] = stage_token)
            /\ b[1] # "probe" => b[2] # NoToken

\* The v3 stage's acquisition refreshed the credential, and the reference
\* stage still sent the token acquired at the start of the run.
C20_Witness ==
    /\ pc = "dep_token"
    /\ token # stage_token
    /\ stage_token = MostRecent(api_tokens).jwt
    /\ <<"v3", stage_token>> \in bearers
    /\ <<"ref", token>> \in bearers
    /\ <<"ref", stage_token>> \notin bearers

\* C21: throttling.  In each of the three fetching stages (v3 details,
\* reference measurements, deployments) a pause of the configured interval
\* occurs between any two consecutive remote fetches, whether the earlier
\* fetch succeeded or raised: every item of a stage that was followed by
\* another fetch of that stage was followed by sleep(REQUEST_SLEEP) first.
C21_Throttling ==
    \A st \in Stages :
        /\ Len(pauses[st]) = Len(fetched[st])
        /\ \A k \in 1..(Len(fetched[st]) - 1) : pauses[st][k]

\* C22: every credential row inserted by a refresh has an id different from
\* the id of every row already in the credential table, for any sequence of
\* get_valid_jwt calls, two refreshes within the same clock second included:
\* when the most recent call inserted a row, no row the table held before the
\* call has that row's id.
C22_FreshCredentialId ==
    (Called /\ Len(api_tokens) > Len(jwt_call.before)) =>
        \A q \in Range(jwt_call.before) : q.id # api_tokens[Len(api_tokens)].id

====
